---- MODULE Spec2Model ----
(***************************************************************************)
(* pycopy: the parallel copy engine of src/pycopy.py.                      *)
(*                                                                         *)
(* File mode   : MainWindow.start_copy pre-sizes the destination file,     *)
(*               splits [0, S) into thread_count ranges and starts one     *)
(*               CopyThread per range.                                     *)
(* Folder mode : MainWindow.start_copy scans the tree into files_queue and *)
(*               starts thread_count FolderCopyThread workers that drain   *)
(*               the queue under queue_lock.                               *)
(* Progress    : workers emit Qt signals; the slots run in the main        *)
(*               thread, one queued event at a time, interleaved with the  *)
(*               500 ms QTimer tick (update_status).                       *)
(*                                                                         *)
(* Scope of the model.  A behaviour follows one launched copy operation,   *)
(* with rejected requests before it and after its completion.  The         *)
(* destination directory is a directory other than the one holding the     *)
(* source.  The widgets (progress bars, labels) are not state of the       *)
(* model; of the message boxes only the kind of the last one is kept.      *)
(* The 1 MiB block is scaled down to block_size bytes.                     *)
(***************************************************************************)
EXTENDS Integers, Sequences, FiniteSets, TLC

\* ---- bounds of the model ----
MaxSize == 6        \* largest source file (bytes), file mode
MaxThreads == 2     \* largest thread_spin value explored (the widget allows 1..64)
MaxFiles == 2       \* most files in the source tree, folder mode
MaxFileSize == 3    \* largest file of the source tree (bytes)
MaxRangeSize == 16  \* largest source file of the partition-only specification
MaxRangeThreads == 8 \* largest thread_spin value of the partition-only specification

block_size == 2     \* the block of CopyThread / FolderCopyThread (1024*1024 in the program)

VARIABLES
    srcKind,            \* what the path "src" is on disk: "file" or "dir"
    srcData,            \* content of the source file (file mode)
    tree,               \* the source tree in os.walk order: <<[dir, size]>>
    dstFile,            \* the file dst_dir/basename(src): [exists, data]
    dstDirs,            \* existing directories under dst_dir: 0 = dst_base, 1 = dst_base/sub
    dstFiles,           \* file id -> [exists, data], the mirrored files
    total_bytes_copied, \* MainWindow.total_bytes_copied
    total_file_size,    \* MainWindow.total_file_size
    thread_progress,    \* MainWindow.thread_progress
    timerActive,        \* MainWindow.timer is running
    start_enabled,      \* MainWindow.start_button.isEnabled()
    dialog,             \* kind of the message box shown by the last handler
    completions,        \* number of "finished" message boxes raised
    mode,               \* "none", "file" or "folder": the operation launched
    threads,            \* MainWindow.threads / folder_threads: worker -> its locals
    files_queue,        \* MainWindow.files_queue, shared by the folder workers
    queue_lock,         \* MainWindow.queue_lock: the worker holding it, -1 when free
    events,             \* queued signal deliveries waiting in the main thread
    pulls,              \* ids of the tasks popped from files_queue, in pop order
    finished_emitted,   \* worker -> number of finished_signal emissions
    faulted,            \* some I/O call has failed (an exception, or a read cut short)
    aborted             \* the process was ended by an uncaught exception

vars == <<srcKind, srcData, tree, dstFile, dstDirs, dstFiles,
          total_bytes_copied, total_file_size, thread_progress, timerActive,
          start_enabled, dialog, completions, mode, threads,
          files_queue, queue_lock, events, pulls, finished_emitted, faulted, aborted>>

world == <<srcKind, srcData, tree>>
disk == <<dstFile, dstDirs, dstFiles>>
progress == <<total_bytes_copied, total_file_size, thread_progress>>

\* ---- files as byte sequences ----
Min(a, b) == IF a < b THEN a ELSE b
Max(a, b) == IF a > b THEN a ELSE b

NoFile == [exists |-> FALSE, data |-> <<>>]

\* f.read(n) at offset pos: at most n bytes, fewer or none at end of file
ReadAt(f, pos, n) ==
    IF pos >= Len(f) THEN <<>> ELSE SubSeq(f, pos + 1, Min(Len(f), pos + n))

\* f.write(d) at offset pos: overwrites in place, extends the file when needed
WriteAt(f, pos, d) ==
    [i \in 1 .. Max(Len(f), pos + Len(d)) |->
        IF i > pos /\ i <= pos + Len(d) THEN d[i - pos]
        ELSE IF i <= Len(f) THEN f[i] ELSE 0]

\* mutant of Truncated: the file is created but not sized
Truncated_Empty(n) == <<>>

\* open(dst, "wb"); f.truncate(n): a file of n zero bytes
Truncated(n) == [i \in 1 .. n |-> 0]

\* the bytes of file k of the source tree
FileContent(k) == [j \in 1 .. tree[k].size |-> 10 * k + j]

\* a file left at the destination by an earlier run
Junk == [exists |-> TRUE, data |-> <<9, 9, 9, 9, 9, 9>>]

\* ---- the request paths the user can type ----
SrcPaths == {"src", "missing", "special"}
DstPaths == {"out", "notdir"}

Exists(p) == p # "missing"                       \* os.path.exists
IsFile(p) == p = "src" /\ srcKind = "file"        \* os.path.isfile
IsDir(p) == p = "src" /\ srcKind = "dir"          \* os.path.isdir(src)
\* mutant of DstIsDir: the destination is not validated
DstIsDir_Any(d) == TRUE

DstIsDir(d) == d = "out"                          \* os.path.isdir(dst_dir)

\* ---- worker locals ----
NoTask == [id |-> 0, dir |-> 0, file_size |-> 0]

NoThread ==
    [pc |-> "none", start_pos |-> 0, end_pos |-> 0, total_bytes |-> 0,
     bytes_to_copy |-> 0, rpos |-> 0, wpos |-> 0, data |-> <<>>,
     task |-> NoTask, copied |-> 0, short |-> FALSE]

\* CopyThread.__init__
NewCopyThread(start_pos, end_pos) ==
    [NoThread EXCEPT !.pc = "open", !.start_pos = start_pos, !.end_pos = end_pos,
                     !.total_bytes = end_pos - start_pos]

\* FolderCopyThread.__init__
NewFolderCopyThread == [NoThread EXCEPT !.pc = "pull"]

\* ---- start_copy: the partition of file mode ----
\* mutant of PartSize: the part is rounded up
PartSize_Ceil(S, N) == (S + N - 1) \div N

PartSize(S, N) == S \div N
StartPos(i, S, N) == i * PartSize(S, N)
\* mutant of EndPos: the last range is cut like the others, the remainder is dropped
EndPos_NoRemainder(i, S, N) == (i + 1) * PartSize(S, N)

EndPos(i, S, N) == IF i # N - 1 THEN (i + 1) * PartSize(S, N) ELSE S

\* ---- start_copy: the scan of folder mode ----
RECURSIVE SumSizes(_)
SumSizes(q) == IF q = <<>> THEN 0 ELSE Head(q).file_size + SumSizes(Tail(q))

\* os.walk + os.path.getsize; a file whose getsize raises is queued with size 0
ScanQueue(t, failing) ==
    [k \in 1 .. Len(t) |->
        [id |-> k, dir |-> t[k].dir, file_size |-> IF k \in failing THEN 0 ELSE t[k].size]]

\* os.makedirs(d, exist_ok=True): d and its missing parents
DirsUpTo(d) == 0 .. d

\* ---- initial states ----
Patterns(S) == {[i \in 1 .. S |-> i], [i \in 1 .. S |-> S + 1 - i]}

Trees ==
    UNION {[1 .. n -> [dir : {0, 1}, size : 0 .. MaxFileSize]] : n \in 0 .. MaxFiles}

\* os.walk is top-down: the files of the root come before those of the subdirectory
WalkOrdered(t) == \A a, b \in 1 .. Len(t) : a < b => t[a].dir <= t[b].dir

Init ==
    /\ \E preexisting \in BOOLEAN :
        /\ \/ /\ srcKind = "file"
              /\ \E S \in 0 .. MaxSize : srcData \in Patterns(S)
              /\ tree = <<>>
           \/ /\ srcKind = "dir"
              /\ srcData = <<>>
              /\ tree \in {t \in Trees : WalkOrdered(t)}
        /\ dstFile = IF preexisting /\ srcKind = "file" THEN Junk ELSE NoFile
        /\ dstDirs = IF preexisting /\ srcKind = "dir" THEN {0} ELSE {}
        /\ dstFiles = [k \in 1 .. MaxFiles |->
                          IF preexisting /\ srcKind = "dir" /\ k = 1 THEN Junk ELSE NoFile]
    /\ total_bytes_copied = 0
    /\ total_file_size = 0
    /\ thread_progress = [w \in {} |-> 0]
    /\ timerActive = FALSE
    /\ start_enabled = TRUE
    /\ dialog = "none"
    /\ completions = 0
    /\ mode = "none"
    /\ threads = [w \in {} |-> NoThread]
    /\ files_queue = <<>>
    /\ queue_lock = -1
    /\ events = <<>>
    /\ pulls = <<>>
    /\ finished_emitted = [w \in {} |-> 0]
    /\ faulted = FALSE
    /\ aborted = FALSE

\* ---- MainWindow.start_copy ----
Reject(kind) ==
    /\ dialog' = kind
    /\ UNCHANGED <<world, disk, progress, timerActive, start_enabled, completions,
                   mode, threads, files_queue, queue_lock, events, pulls,
                   finished_emitted, faulted, aborted>>

\* start_copy, both modes: thread_progress[i] = 0 for i in range(thread_count)
ResetProgress(N) ==
    [w \in (DOMAIN thread_progress) \cup (0 .. N - 1) |->
        IF w < N THEN 0 ELSE thread_progress[w]]

\* start_copy, file mode: the list self.threads, one CopyThread per range
Ranges(S, N) == [i \in 0 .. N - 1 |-> NewCopyThread(StartPos(i, S, N), EndPos(i, S, N))]

StartFile(N) ==
    LET S == Len(srcData) IN
    /\ mode = "none"
    /\ total_file_size' = S
    /\ total_bytes_copied' = 0
    /\ dstFile' = [exists |-> TRUE, data |-> Truncated(S)]
    /\ thread_progress' = ResetProgress(N)
    /\ threads' = Ranges(S, N)
    /\ finished_emitted' = [w \in 0 .. N - 1 |-> 0]
    /\ timerActive' = TRUE
    /\ start_enabled' = FALSE
    /\ mode' = "file"
    /\ dialog' = "none"
    /\ UNCHANGED <<world, dstDirs, dstFiles, completions, files_queue, queue_lock, events, pulls,
                   faulted, aborted>>

\* mutant of EmptySource: only a tree without files is rejected
EmptySource_NoFiles(queue) == queue = <<>>

\* start_copy: if total_size == 0
EmptySource(queue) == SumSizes(queue) = 0

StartFolder(N) ==
    \E failing \in SUBSET (1 .. Len(tree)) :
    LET queue == ScanQueue(tree, failing)
        total_size == SumSizes(queue) IN
    IF EmptySource(queue) THEN Reject("empty_source")
    ELSE
    /\ mode = "none"
    /\ total_file_size' = total_size
    /\ total_bytes_copied' = 0
    /\ files_queue' = queue
    /\ queue_lock' = -1
    /\ thread_progress' = ResetProgress(N)
    /\ threads' = [w \in 0 .. N - 1 |-> NewFolderCopyThread]
    /\ finished_emitted' = [w \in 0 .. N - 1 |-> 0]
    /\ timerActive' = TRUE
    /\ start_enabled' = FALSE
    /\ mode' = "folder"
    /\ dialog' = "none"
    /\ faulted' = (faulted \/ failing # {})
    /\ UNCHANGED <<world, disk, completions, events, pulls, aborted>>

start_copy(src, dst_dir, N) ==
    /\ start_enabled
    /\ ~aborted
    /\ IF ~Exists(src) THEN Reject("invalid_source")
       ELSE IF ~DstIsDir(dst_dir) THEN Reject("invalid_destination")
       ELSE IF IsFile(src) THEN StartFile(N)
       ELSE IF IsDir(src) THEN StartFolder(N)
       ELSE Reject("invalid_kind")

\* ---- CopyThread.run ----
Thread(w) == threads[w]

Goto(w, pc) == threads' = [threads EXCEPT ![w].pc = pc]

\* the worker leaves its unit of work (its range, its file) for pc, having written
\* copied of the assigned bytes; short records that some unit was left incomplete
EndUnit(w, pc, copied, assigned) ==
    threads' = [threads EXCEPT ![w].pc = pc, ![w].data = <<>>,
                               ![w].short = @ \/ copied < assigned]

\* an I/O call that fails; any call may, any number of times
Fault == faulted' = TRUE
NoFault == UNCHANGED faulted

\* mutant of ReadSize: nothing is asked of the source
ReadSize_Zero(remaining) == 0

ReadSize(remaining) == IF remaining >= block_size THEN block_size ELSE remaining

\* mutant of SeekSrc: the source handle is left at offset 0
SeekSrc_Zero(w) == 0

\* f_src.seek(self.start_pos)
SeekSrc(w) == Thread(w).start_pos

\* mutant of SeekDst: the destination handle is left at offset 0
SeekDst_Zero(w) == 0

\* f_dst.seek(self.start_pos)
SeekDst(w) == Thread(w).start_pos

CopyThread_open(w) ==
    /\ ~aborted /\ mode = "file" /\ Thread(w).pc = "open"
    /\ \/ /\ dstFile.exists
          /\ threads' = [threads EXCEPT ![w].pc = "read",
                                        ![w].rpos = SeekSrc(w),
                                        ![w].wpos = SeekDst(w),
                                        ![w].bytes_to_copy = Thread(w).total_bytes]
          /\ NoFault
       \/ /\ ~dstFile.exists
          /\ EndUnit(w, "finish", 0, Thread(w).total_bytes)
          /\ NoFault
       \/ /\ Fault
          /\ EndUnit(w, "finish", 0, Thread(w).total_bytes)
    /\ UNCHANGED <<world, disk, progress, timerActive, start_enabled, dialog,
                   completions, mode, files_queue, queue_lock, events, pulls,
                   finished_emitted, aborted>>

CopyThread_read(w) ==
    /\ ~aborted /\ mode = "file" /\ Thread(w).pc = "read"
    /\ \/ /\ Thread(w).bytes_to_copy > 0
          /\ LET data == ReadAt(srcData, Thread(w).rpos, ReadSize(Thread(w).bytes_to_copy)) IN
             IF data = <<>> THEN EndUnit(w, "finish", Thread(w).total_bytes - Thread(w).bytes_to_copy,
                           Thread(w).total_bytes)
             ELSE threads' = [threads EXCEPT ![w].pc = "write", ![w].data = data,
                                             ![w].rpos = Thread(w).rpos + Len(data)]
          /\ NoFault
       \/ /\ Thread(w).bytes_to_copy <= 0
          /\ Goto(w, "finish")
          /\ NoFault
       \/ /\ Thread(w).bytes_to_copy > 0
          /\ Fault
          /\ EndUnit(w, "finish", Thread(w).total_bytes - Thread(w).bytes_to_copy,
                           Thread(w).total_bytes)
    /\ UNCHANGED <<world, disk, progress, timerActive, start_enabled, dialog,
                   completions, mode, files_queue, queue_lock, events, pulls,
                   finished_emitted, aborted>>

CopyThread_write(w) ==
    /\ ~aborted /\ mode = "file" /\ Thread(w).pc = "write"
    /\ \/ /\ dstFile' = [dstFile EXCEPT !.data = WriteAt(dstFile.data, Thread(w).wpos, Thread(w).data)]
          /\ threads' = [threads EXCEPT ![w].pc = "emit",
                                        ![w].wpos = Thread(w).wpos + Len(Thread(w).data)]
          /\ NoFault
       \/ /\ Fault
          /\ EndUnit(w, "finish", Thread(w).total_bytes - Thread(w).bytes_to_copy,
                           Thread(w).total_bytes)
          /\ UNCHANGED dstFile
    /\ UNCHANGED <<world, dstDirs, dstFiles, progress, timerActive, start_enabled, dialog,
                   completions, mode, files_queue, queue_lock, events, pulls,
                   finished_emitted, aborted>>

\* mutant of EmittedBytes: the progress signal carries the block size, not len(data)
EmittedBytes_BlockSize(w) == block_size

\* progress_update.emit(thread_index, len(data)) / overall_progress_update.emit(len(data))
EmittedBytes(w) == Len(Thread(w).data)

CopyThread_emit(w) ==
    /\ ~aborted /\ mode = "file" /\ Thread(w).pc = "emit"
    /\ events' = Append(events, [kind |-> "file", thread_index |-> w, n |-> EmittedBytes(w)])
    /\ threads' = [threads EXCEPT ![w].pc = "read", ![w].data = <<>>,
                                  ![w].bytes_to_copy = Thread(w).bytes_to_copy - Len(Thread(w).data)]
    /\ UNCHANGED <<world, disk, progress, timerActive, start_enabled, dialog,
                   completions, mode, files_queue, queue_lock, pulls,
                   finished_emitted, faulted, aborted>>

CopyThread_finish(w) ==
    /\ ~aborted /\ mode = "file" /\ Thread(w).pc = "finish"
    /\ finished_emitted' = [finished_emitted EXCEPT ![w] = @ + 1]
    /\ Goto(w, "done")
    /\ UNCHANGED <<world, disk, progress, timerActive, start_enabled, dialog,
                   completions, mode, files_queue, queue_lock, events, pulls,
                   faulted, aborted>>

\* ---- FolderCopyThread.run ----
\* mutant of LockFree: the lock excludes nobody
LockFree_Always == TRUE

\* with self.lock: entered when the lock is free
LockFree == queue_lock = -1

\* mutant of PopFront: the head is read but left in the queue
PopFront_Peek(q) == q

\* files_queue.pop(0): the queue that remains
PopFront(q) == Tail(q)

\* with self.lock: if not self.files_queue: break (the lock is released on the way out)
FolderCopyThread_pull(w) ==
    /\ ~aborted /\ mode = "folder" /\ Thread(w).pc = "pull"
    /\ LockFree
    /\ IF files_queue = <<>>
       THEN /\ Goto(w, "finish")
            /\ UNCHANGED queue_lock
       ELSE /\ Goto(w, "pop")
            /\ queue_lock' = w
    /\ UNCHANGED <<world, disk, progress, timerActive, start_enabled, dialog,
                   completions, mode, files_queue, events, pulls, finished_emitted,
                   faulted, aborted>>

\* file_task = self.files_queue.pop(0), still under the lock, which is then released.
\* pop(0) on an empty list raises IndexError, which nothing in run() catches.
FolderCopyThread_pop(w) ==
    /\ ~aborted /\ mode = "folder" /\ Thread(w).pc = "pop"
    /\ IF files_queue = <<>>
       THEN /\ Goto(w, "index_error")
            /\ aborted' \in BOOLEAN
            /\ UNCHANGED <<files_queue, pulls>>
       ELSE /\ threads' = [threads EXCEPT ![w].pc = "exists", ![w].task = Head(files_queue)]
            /\ files_queue' = PopFront(files_queue)
            /\ pulls' = Append(pulls, Head(files_queue).id)
            /\ UNCHANGED aborted
    /\ queue_lock' = IF queue_lock = w THEN -1 ELSE queue_lock
    /\ UNCHANGED <<world, disk, progress, timerActive, start_enabled, dialog,
                   completions, mode, events, finished_emitted, faulted>>

FolderCopyThread_exists(w) ==
    /\ ~aborted /\ mode = "folder" /\ Thread(w).pc = "exists"
    /\ IF Thread(w).task.dir \in dstDirs THEN Goto(w, "open") ELSE Goto(w, "makedirs")
    /\ UNCHANGED <<world, disk, progress, timerActive, start_enabled, dialog,
                   completions, mode, files_queue, queue_lock, events, pulls,
                   finished_emitted, faulted, aborted>>

\* mutant of exist_ok: makedirs is called without exist_ok
exist_ok_False == FALSE

\* os.makedirs(dst_dir, exist_ok=True)
exist_ok == TRUE

\* the final mkdir of makedirs finds the directory there: FileExistsError,
\* swallowed when exist_ok is set
FileExistsError(d) == d \in dstDirs /\ ~exist_ok

\* os.makedirs stands outside the try block: its exception leaves run() uncaught.
\* PyQt5 then ends the process (qFatal) or, with older bindings, only the thread.
FolderCopyThread_makedirs(w) ==
    /\ ~aborted /\ mode = "folder" /\ Thread(w).pc = "makedirs"
    /\ \/ /\ ~FileExistsError(Thread(w).task.dir)
          /\ dstDirs' = dstDirs \cup DirsUpTo(Thread(w).task.dir)
          /\ Goto(w, "open")
          /\ NoFault
          /\ UNCHANGED aborted
       \/ /\ FileExistsError(Thread(w).task.dir)
          /\ EndUnit(w, "crashed", 0, Thread(w).task.file_size)
          /\ NoFault
          /\ aborted' \in BOOLEAN
          /\ UNCHANGED dstDirs
       \/ /\ Fault
          /\ EndUnit(w, "crashed", 0, Thread(w).task.file_size)
          /\ aborted' \in BOOLEAN
          /\ UNCHANGED dstDirs
    /\ UNCHANGED <<world, dstFile, dstFiles, progress, timerActive, start_enabled, dialog,
                   completions, mode, files_queue, queue_lock, events, pulls,
                   finished_emitted>>

FolderCopyThread_open(w) ==
    /\ ~aborted /\ mode = "folder" /\ Thread(w).pc = "open"
    /\ \/ /\ Thread(w).task.dir \in dstDirs
          /\ dstFiles' = [dstFiles EXCEPT ![Thread(w).task.id] = [exists |-> TRUE, data |-> <<>>]]
          /\ threads' = [threads EXCEPT ![w].pc = "read", ![w].copied = 0,
                                        ![w].rpos = 0, ![w].wpos = 0]
          /\ NoFault
       \/ /\ Thread(w).task.dir \notin dstDirs
          /\ EndUnit(w, "pull", 0, Thread(w).task.file_size)
          /\ UNCHANGED dstFiles
          /\ NoFault
       \/ /\ Fault
          /\ EndUnit(w, "pull", 0, Thread(w).task.file_size)
          /\ UNCHANGED dstFiles
    /\ UNCHANGED <<world, dstFile, dstDirs, progress, timerActive, start_enabled, dialog,
                   completions, mode, files_queue, queue_lock, events, pulls,
                   finished_emitted, aborted>>

FolderCopyThread_read(w) ==
    /\ ~aborted /\ mode = "folder" /\ Thread(w).pc = "read"
    /\ LET file_size == Thread(w).task.file_size
           copied == Thread(w).copied IN
       \/ /\ copied < file_size
          /\ LET data == ReadAt(FileContent(Thread(w).task.id), Thread(w).rpos,
                                ReadSize(file_size - copied)) IN
             IF data = <<>> THEN EndUnit(w, "pull", copied, file_size)
             ELSE threads' = [threads EXCEPT ![w].pc = "write", ![w].data = data,
                                             ![w].rpos = Thread(w).rpos + Len(data)]
          /\ NoFault
       \/ /\ copied >= file_size
          /\ Goto(w, "pull")
          /\ NoFault
       \/ /\ copied < file_size
          /\ Fault
          /\ EndUnit(w, "pull", copied, file_size)
    /\ UNCHANGED <<world, disk, progress, timerActive, start_enabled, dialog,
                   completions, mode, files_queue, queue_lock, events, pulls,
                   finished_emitted, aborted>>

FolderCopyThread_write(w) ==
    /\ ~aborted /\ mode = "folder" /\ Thread(w).pc = "write"
    /\ LET id == Thread(w).task.id IN
       \/ /\ dstFiles' = [dstFiles EXCEPT ![id].data = WriteAt(dstFiles[id].data, Thread(w).wpos, Thread(w).data)]
          /\ threads' = [threads EXCEPT ![w].pc = "emit",
                                        ![w].wpos = Thread(w).wpos + Len(Thread(w).data),
                                        ![w].copied = Thread(w).copied + Len(Thread(w).data)]
          /\ NoFault
       \/ /\ Fault
          /\ EndUnit(w, "pull", Thread(w).copied, Thread(w).task.file_size)
          /\ UNCHANGED dstFiles
    /\ UNCHANGED <<world, dstFile, dstDirs, progress, timerActive, start_enabled, dialog,
                   completions, mode, files_queue, queue_lock, events, pulls,
                   finished_emitted, aborted>>

FolderCopyThread_emit(w) ==
    /\ ~aborted /\ mode = "folder" /\ Thread(w).pc = "emit"
    /\ events' = Append(events, [kind |-> "folder", n |-> EmittedBytes(w)])
    /\ threads' = [threads EXCEPT ![w].pc = "read", ![w].data = <<>>]
    /\ UNCHANGED <<world, disk, progress, timerActive, start_enabled, dialog,
                   completions, mode, files_queue, queue_lock, pulls,
                   finished_emitted, faulted, aborted>>

FolderCopyThread_finish(w) ==
    /\ ~aborted /\ mode = "folder" /\ Thread(w).pc = "finish"
    /\ finished_emitted' = [finished_emitted EXCEPT ![w] = @ + 1]
    /\ Goto(w, "done")
    /\ UNCHANGED <<world, disk, progress, timerActive, start_enabled, dialog,
                   completions, mode, files_queue, queue_lock, events, pulls,
                   faulted, aborted>>

\* ---- the slots and the timer, run by the main thread ----
handle_file_progress ==
    /\ ~aborted /\ events # <<>> /\ Head(events).kind = "file"
    /\ LET e == Head(events) IN
        /\ thread_progress' = [thread_progress EXCEPT ![e.thread_index] = @ + e.n]
        /\ total_bytes_copied' = total_bytes_copied + e.n
    /\ events' = Tail(events)
    /\ UNCHANGED <<world, disk, total_file_size, timerActive, start_enabled, dialog,
                   completions, mode, threads, files_queue, queue_lock, pulls,
                   finished_emitted, faulted, aborted>>

handle_folder_overall_progress ==
    /\ ~aborted /\ events # <<>> /\ Head(events).kind = "folder"
    /\ total_bytes_copied' = total_bytes_copied + Head(events).n
    /\ events' = Tail(events)
    /\ UNCHANGED <<world, disk, total_file_size, thread_progress, timerActive,
                   start_enabled, dialog, completions, mode, threads,
                   files_queue, queue_lock, pulls, finished_emitted, faulted, aborted>>

\* mutant of Completed: the comparison is strict
Completed_Strict == total_bytes_copied > total_file_size

\* mutant of Completed: completion is declared at the first tick
Completed_Always == TRUE

\* update_status: if self.total_bytes_copied >= self.total_file_size
Completed == total_bytes_copied >= total_file_size

update_status ==
    /\ ~aborted /\ timerActive
    /\ IF Completed
       THEN /\ timerActive' = FALSE
            /\ start_enabled' = TRUE
            /\ dialog' = "finished"
            /\ completions' = completions + 1
       ELSE UNCHANGED <<timerActive, start_enabled, dialog, completions>>
    /\ UNCHANGED <<world, disk, progress, mode, threads, files_queue, queue_lock,
                   events, pulls, finished_emitted, faulted, aborted>>

Next ==
    \/ \E src \in SrcPaths, dst_dir \in DstPaths, N \in 1 .. MaxThreads :
          start_copy(src, dst_dir, N)
    \/ \E w \in DOMAIN threads : CopyThread_open(w)
    \/ \E w \in DOMAIN threads : CopyThread_read(w)
    \/ \E w \in DOMAIN threads : CopyThread_write(w)
    \/ \E w \in DOMAIN threads : CopyThread_emit(w)
    \/ \E w \in DOMAIN threads : CopyThread_finish(w)
    \/ \E w \in DOMAIN threads : FolderCopyThread_pull(w)
    \/ \E w \in DOMAIN threads : FolderCopyThread_pop(w)
    \/ \E w \in DOMAIN threads : FolderCopyThread_exists(w)
    \/ \E w \in DOMAIN threads : FolderCopyThread_makedirs(w)
    \/ \E w \in DOMAIN threads : FolderCopyThread_open(w)
    \/ \E w \in DOMAIN threads : FolderCopyThread_read(w)
    \/ \E w \in DOMAIN threads : FolderCopyThread_write(w)
    \/ \E w \in DOMAIN threads : FolderCopyThread_emit(w)
    \/ \E w \in DOMAIN threads : FolderCopyThread_finish(w)
    \/ handle_file_progress
    \/ handle_folder_overall_progress
    \/ update_status

Spec == Init /\ [][Next]_vars

\* ---- scheduling: every QThread keeps running, the event loop keeps delivering
\* queued signals to the slots, the QTimer keeps firing ----
WorkerStep(w) ==
    /\ w \in DOMAIN threads
    /\ \/ CopyThread_open(w) \/ CopyThread_read(w) \/ CopyThread_write(w)
       \/ CopyThread_emit(w) \/ CopyThread_finish(w)
       \/ FolderCopyThread_pull(w) \/ FolderCopyThread_pop(w)
       \/ FolderCopyThread_exists(w) \/ FolderCopyThread_makedirs(w)
       \/ FolderCopyThread_open(w) \/ FolderCopyThread_read(w)
       \/ FolderCopyThread_write(w) \/ FolderCopyThread_emit(w)
       \/ FolderCopyThread_finish(w)

Fairness ==
    /\ \A w \in 0 .. MaxThreads - 1 : WF_vars(WorkerStep(w))
    /\ WF_vars(handle_file_progress)
    /\ WF_vars(handle_folder_overall_progress)
    /\ WF_vars(update_status)

FairSpec == Init /\ [][Next]_vars /\ Fairness

\* ---- the partition alone: start_copy on larger files and thread counts ----
InitRanges ==
    /\ srcKind = "file"
    /\ \E S \in 0 .. MaxRangeSize : srcData = [i \in 1 .. S |-> i]
    /\ tree = <<>>
    /\ dstFile = NoFile
    /\ dstDirs = {}
    /\ dstFiles = [k \in 1 .. MaxFiles |-> NoFile]
    /\ total_bytes_copied = 0
    /\ total_file_size = 0
    /\ thread_progress = [w \in {} |-> 0]
    /\ timerActive = FALSE
    /\ start_enabled = TRUE
    /\ dialog = "none"
    /\ completions = 0
    /\ mode = "none"
    /\ threads = [w \in {} |-> NoThread]
    /\ files_queue = <<>>
    /\ queue_lock = -1
    /\ events = <<>>
    /\ pulls = <<>>
    /\ finished_emitted = [w \in {} |-> 0]
    /\ faulted = FALSE
    /\ aborted = FALSE

NextRanges ==
    \E src \in SrcPaths, dst_dir \in DstPaths, N \in 1 .. MaxRangeThreads :
        start_copy(src, dst_dir, N)

SpecRanges == InitRanges /\ [][NextRanges]_vars

(***************************************************************************)
(* The claims.                                                             *)
(***************************************************************************)
ThreadCount == Cardinality(DOMAIN threads)
NoIOError == ~faulted /\ ~aborted

RECURSIVE SumTotalBytes(_)
SumTotalBytes(n) == IF n = 0 THEN 0 ELSE threads[n - 1].total_bytes + SumTotalBytes(n - 1)

\* C1: in file mode the ranges [start_pos, end_pos) built by start_copy start at 0,
\* end at the file size S, are contiguous (end_i = start_{i+1}), pairwise disjoint,
\* and their lengths sum to S, for every S >= 0 and N >= 1, N > S included.
C1_PartitionExact ==
    mode = "file" =>
        LET N == ThreadCount
            S == Len(srcData) IN
        /\ N >= 1
        /\ threads[0].start_pos = 0
        /\ threads[N - 1].end_pos = S
        /\ \A i \in 0 .. N - 2 : threads[i].end_pos = threads[i + 1].start_pos
        /\ \A i \in 0 .. N - 1 :
              /\ threads[i].start_pos <= threads[i].end_pos
              /\ threads[i].total_bytes = threads[i].end_pos - threads[i].start_pos
        /\ \A i, j \in 0 .. N - 1 :
              i # j => ~ \E b \in 0 .. S :
                          /\ threads[i].start_pos <= b /\ b < threads[i].end_pos
                          /\ threads[j].start_pos <= b /\ b < threads[j].end_pos
        /\ SumTotalBytes(N) = S

\* a launch with more workers than bytes, and one with a remainder for the last worker
C1_Witness ==
    /\ mode = "file"
    /\ ThreadCount >= 3
    /\ \/ (Len(srcData) > 0 /\ ThreadCount > Len(srcData))
       \/ (Len(srcData) > ThreadCount /\ Len(srcData) % ThreadCount # 0)

AllDone == \A w \in DOMAIN threads : threads[w].pc = "done"

\* C2: file mode, no I/O error: once every CopyThread has reached Done, the
\* destination file exists, has the length of the source and holds the same bytes,
\* for every content, thread count and interleaving.
C2_RoundTrip ==
    (mode = "file" /\ NoIOError /\ AllDone) =>
        /\ dstFile.exists
        /\ Len(dstFile.data) = Len(srcData)
        /\ dstFile.data = srcData

\* two workers have copied a file of several blocks, the last one partial
C2_Witness ==
    /\ mode = "file" /\ NoIOError /\ AllDone
    /\ ThreadCount = 2
    /\ Len(srcData) = 5
    /\ dstFile.data = srcData

\* ---- folder mode: the tree and its mirror ----
TreeFiles == 1 .. Len(tree)

RECURSIVE TreeSize(_)
TreeSize(n) == IF n = 0 THEN 0 ELSE tree[n].size + TreeSize(n - 1)

\* file k stands under the destination root at its mirrored path with its content
Mirrored(k) ==
    /\ tree[k].dir \in dstDirs
    /\ dstFiles[k].exists
    /\ Len(dstFiles[k].data) = tree[k].size
    /\ dstFiles[k].data = FileContent(k)

\* C3: folder mode, no I/O error: once update_status has raised the completion
\* signal, every scanned file (zero-byte files included) stands mirrored under the
\* destination root with its size and content, and total_bytes_copied is the sum
\* of the scanned sizes.
C3_TreeMirroredAtCompletion ==
    (mode = "folder" /\ NoIOError /\ completions >= 1) =>
        /\ \A k \in TreeFiles : Mirrored(k)
        /\ total_bytes_copied = TreeSize(Len(tree))

C5_CompletionOnce ==
    [][ /\ (completions' # completions) =>
              /\ update_status
              /\ total_bytes_copied >= total_file_size
              /\ completions = 0 /\ completions' = 1
              /\ timerActive /\ ~timerActive'
              /\ dialog' = "finished"
        /\ (update_status /\ total_bytes_copied >= total_file_size) =>
              (completions' = completions + 1 /\ ~timerActive')
        /\ (update_status /\ total_bytes_copied < total_file_size) =>
              (completions' = completions /\ timerActive')
        /\ (completions >= 1) => ~timerActive'
      ]_vars

\* completion was raised for a non-empty copy, with the poller stopped and every
\* progress event applied
C5_Witness ==
    /\ completions = 1
    /\ ~timerActive
    /\ total_file_size > 0
    /\ total_bytes_copied = total_file_size
    /\ events = <<>>

\* C6: within an operation total_bytes_copied never decreases from one step to the
\* next (so neither between two status ticks) and never exceeds total_file_size,
\* in both modes, whatever the interleaving and whatever fails.
C6_ProgressMonotoneBounded ==
    /\ [](total_bytes_copied <= total_file_size)
    /\ [][(mode' = mode) => total_bytes_copied' >= total_bytes_copied]_vars

\* progress has been accumulated from several events, in either mode
C6_Witness ==
    /\ mode = "folder"
    /\ total_bytes_copied >= 3
    /\ total_bytes_copied < total_file_size
    /\ events # <<>>

\* C7: with a source directory whose files sum to 0 bytes (no file, or zero-byte
\* files only) a click on start changes nothing but the message box: no worker,
\* no poller, no file or directory at the destination.
C7_EmptySourceRejected ==
    [][ (srcKind = "dir" /\ TreeSize(Len(tree)) = 0) =>
            /\ dialog' \in {"empty_source", "invalid_source", "invalid_destination", "invalid_kind"}
            /\ UNCHANGED <<world, disk, progress, timerActive, start_enabled, completions,
                           mode, threads, files_queue, queue_lock, events, pulls,
                           finished_emitted, faulted, aborted>>
      ]_vars

\* a tree of zero-byte files only was rejected
C7_Witness ==
    /\ srcKind = "dir"
    /\ Len(tree) = 2
    /\ TreeSize(Len(tree)) = 0
    /\ dialog = "empty_source"
    /\ threads = <<>>
    /\ ~timerActive

\* C8: a click on start with a source path that does not exist or a destination
\* that is not a directory shows a warning and changes nothing else: no worker,
\* no poller, no destination file, total_bytes_copied and total_file_size as before.
C8_InvalidRequestRejected ==
    [][ \A src \in SrcPaths, dst_dir \in DstPaths, N \in 1 .. MaxRangeThreads :
            (start_copy(src, dst_dir, N) /\ (src = "missing" \/ dst_dir = "notdir")) =>
                /\ dialog' \in {"invalid_source", "invalid_destination"}
                /\ UNCHANGED <<world, disk, progress, timerActive, start_enabled, completions,
                               mode, threads, files_queue, queue_lock, events, pulls,
                               finished_emitted, faulted, aborted>>
      ]_vars

\* a request was rejected after an operation had left a progress state behind
C8_Witness ==
    /\ dialog = "invalid_destination"
    /\ completions = 1
    /\ total_bytes_copied > 0
    /\ total_file_size > 0

\* C9: a worker whose run() has ended, normally or by an exception at any step
\* (open, read, write, makedirs), has emitted finished_signal exactly once, and no
\* worker emits it twice.
C9_FinishedExactlyOnce ==
    \A w \in DOMAIN threads :
        /\ finished_emitted[w] <= 1
        /\ threads[w].pc \in {"done", "crashed", "index_error"} => finished_emitted[w] = 1

\* ---- the copy as one worker performs it ----
RECURSIVE CopyLoop(_, _, _, _)
CopyLoop(src, dst, pos, remaining) ==
    IF remaining <= 0 THEN dst
    ELSE LET data == ReadAt(src, pos, ReadSize(remaining)) IN
         IF data = <<>> THEN dst
         ELSE CopyLoop(src, WriteAt(dst, pos, data), pos + Len(data), remaining - Len(data))

\* file mode, thread_count = 1: the single range copied front to back
OneWorkerFile ==
    LET S == Len(srcData) IN
    CopyLoop(srcData, Truncated(S), StartPos(0, S, 1), EndPos(0, S, 1) - StartPos(0, S, 1))

\* folder mode, thread_count = 1: file k copied front to back
OneWorkerTreeFile(k) == CopyLoop(FileContent(k), <<>>, 0, tree[k].size)

\* C10: with no I/O error, once every worker is Done the destination holds what a
\* run with one worker leaves there, whatever the thread count and interleaving:
\* in file mode the destination file, in folder mode every mirrored file and directory.
C10_SingleWorkerEquivalence ==
    (NoIOError /\ AllDone) =>
        /\ mode = "file" => (dstFile.exists /\ dstFile.data = OneWorkerFile)
        /\ mode = "folder" =>
              \A k \in TreeFiles :
                  /\ dstFiles[k].exists
                  /\ dstFiles[k].data = OneWorkerTreeFile(k)
                  /\ tree[k].dir \in dstDirs

\* two workers are Done where one worker would have done the same copy
C10_Witness ==
    /\ NoIOError /\ AllDone
    /\ ThreadCount = 2
    /\ \/ (mode = "file" /\ Len(srcData) = 5 /\ dstFile.data = OneWorkerFile)
       \/ (mode = "folder" /\ Len(tree) = 2 /\ tree[1].size = 3 /\ tree[2].size = 1
           /\ \A k \in TreeFiles : dstFiles[k].data = OneWorkerTreeFile(k))

\* C11: when several FolderCopyThreads run the exists-check and then makedirs for
\* the same destination directory, a makedirs that finds the directory already
\* created by another worker succeeds and leaves the directories as they are; a
\* worker is stopped in makedirs only by an I/O failure, never by the race; each
\* successful makedirs leaves the directory (and its parents) in place.
C11_IdempotentMakedirs ==
    /\ [](\A w \in DOMAIN threads : threads[w].pc = "crashed" => faulted)
    /\ [][ \A w \in DOMAIN threads :
              (FolderCopyThread_makedirs(w) /\ ~faulted') =>
                  /\ threads'[w].pc = "open"
                  /\ threads[w].task.dir \in dstDirs'
                  /\ dstDirs' = dstDirs \cup DirsUpTo(threads[w].task.dir)
                  /\ (threads[w].task.dir \in dstDirs) => (dstDirs' = dstDirs)
          ]_vars

\* two workers found the same directory missing; one has created it and gone on,
\* the other is about to call makedirs on the directory that now exists
C11_Witness ==
    /\ mode = "folder" /\ NoIOError
    /\ \E w1, w2 \in DOMAIN threads :
          /\ w1 # w2
          /\ threads[w1].task.dir = 1 /\ threads[w2].task.dir = 1
          /\ threads[w1].pc = "makedirs"
          /\ threads[w2].pc \in {"open", "read", "write", "emit"}
          /\ 1 \in dstDirs

\* C12: for a file of S bytes and N workers, worker i < N-1 gets the range
\* [i*floor(S/N), (i+1)*floor(S/N)) of length floor(S/N), and worker N-1 gets
\* [(N-1)*floor(S/N), S) of length floor(S/N) + S mod N; for S = 10485760 and
\* N = 4 the ranges are [0,2621440), [2621440,5242880), [5242880,7864320),
\* [7864320,10485760).
C12_PartitionPolicy ==
    /\ mode = "file" =>
          LET N == ThreadCount
              S == Len(srcData) IN
          /\ \A i \in 0 .. N - 2 :
                /\ threads[i].start_pos = i * (S \div N)
                /\ threads[i].end_pos = (i + 1) * (S \div N)
                /\ threads[i].total_bytes = S \div N
          /\ threads[N - 1].start_pos = (N - 1) * (S \div N)
          /\ threads[N - 1].end_pos = S
          /\ threads[N - 1].total_bytes = (S \div N) + (S % N)
    /\ LET r == Ranges(10485760, 4) IN
          /\ <<r[0].start_pos, r[0].end_pos>> = <<0, 2621440>>
          /\ <<r[1].start_pos, r[1].end_pos>> = <<2621440, 5242880>>
          /\ <<r[2].start_pos, r[2].end_pos>> = <<5242880, 7864320>>
          /\ <<r[3].start_pos, r[3].end_pos>> = <<7864320, 10485760>>

\* four workers on 14 bytes: three ranges of 3 bytes, the last one of 3 + 2
C12_Witness ==
    /\ mode = "file"
    /\ ThreadCount = 4
    /\ Len(srcData) = 14
    /\ threads[2].total_bytes = 3
    /\ threads[3].total_bytes = 5

\* some worker has left a unit of work (its range, one file) with fewer bytes
\* written than assigned
SomeUnitShort == \E w \in DOMAIN threads : threads[w].short

\* the status timer is running in a live process: update_status will be called
PollerTicking == timerActive /\ ~aborted

\* C13: once a worker has ended a unit of work with fewer bytes copied than
\* assigned (an I/O error, a read that returns nothing early), in every later
\* state total_bytes_copied is below total_file_size, no completion has been
\* raised, the poller is still ticking and the start control is still disabled.
C13_StallOnPartialFailure ==
    SomeUnitShort =>
        /\ total_bytes_copied < total_file_size
        /\ completions = 0
        /\ PollerTicking
        /\ ~start_enabled

\* the same with the poller's timer merely never stopped
StallWhileAlive ==
    SomeUnitShort =>
        /\ total_bytes_copied < total_file_size
        /\ completions = 0
        /\ timerActive
        /\ ~start_enabled

\* the worker's run() has ended, by the break or by an uncaught exception
Stopped(w) == threads[w].pc \in {"finish", "done", "crashed", "index_error"}

\* C14: a FolderCopyThread leaves its loop only at a pull that finds the queue
\* empty: whatever happens while it processes a task (ensuring the directory,
\* open, read, write), it goes back to pull, so a worker whose run() has ended
\* has ended at the break with no task left in the queue.
C14_WorkerLoopContinues ==
    mode = "folder" =>
        \A w \in DOMAIN threads :
            Stopped(w) => (threads[w].pc \in {"finish", "done"} /\ files_queue = <<>>)

\* C15: file mode: a block held for writing was read at the offset it is written
\* to; a write changes destination bytes only inside [wpos, wpos + len(data)),
\* which lies inside the worker's own range [start_pos, end_pos) and outside
\* every other worker's range, and sets them to the source bytes of the same
\* offsets; the write offset of a worker grows strictly from one write to the next.
C15_WriteConfinement ==
    /\ [](mode = "file" =>
            \A w \in DOMAIN threads :
                threads[w].pc = "write" =>
                    /\ Len(threads[w].data) > 0
                    /\ threads[w].wpos = threads[w].rpos - Len(threads[w].data)
                    /\ threads[w].start_pos <= threads[w].wpos
                    /\ threads[w].wpos + Len(threads[w].data) <= threads[w].end_pos)
    /\ [][ \A w \in DOMAIN threads :
              (mode = "file" /\ CopyThread_write(w)) =>
                  LET t == threads[w]
                      lo == t.wpos
                      hi == t.wpos + Len(t.data) IN
                  /\ Len(dstFile'.data) = Len(dstFile.data)
                  /\ \A b \in 1 .. Len(dstFile.data) :
                        dstFile'.data[b] # dstFile.data[b] =>
                            /\ lo < b /\ b <= hi
                            /\ dstFile'.data[b] = srcData[b]
                            /\ \A v \in DOMAIN threads \ {w} :
                                  ~(threads[v].start_pos < b /\ b <= threads[v].end_pos)
                  /\ (threads'[w].pc = "emit") =>
                        /\ \A b \in lo + 1 .. hi : dstFile'.data[b] = srcData[b]
                        /\ threads'[w].wpos = hi
                        /\ threads'[w].wpos > t.wpos
          ]_vars

\* the second worker has written its second block, at an offset beyond its first
C15_Witness ==
    /\ mode = "file" /\ NoIOError
    /\ ThreadCount = 2
    /\ Len(srcData) = 6
    /\ threads[1].pc = "emit"
    /\ threads[1].start_pos = 3
    /\ threads[1].wpos = 6
    /\ SubSeq(dstFile.data, 4, 6) = SubSeq(srcData, 4, 6)

\* C16: file mode: from the moment the CopyThreads exist, whatever they are doing
\* (about to open with 'r+b', reading, writing, done), the destination file
\* exists and its length is total_file_size, the length of the source: it was
\* created and sized before the workers and no worker step shrinks or truncates it.
C16_DestinationPreSized ==
    /\ [](mode = "file" =>
            /\ dstFile.exists
            /\ total_file_size = Len(srcData)
            /\ Len(dstFile.data) = total_file_size)
    /\ [][ \A w \in DOMAIN threads :
              (CopyThread_open(w) \/ CopyThread_write(w)) =>
                  /\ dstFile'.exists
                  /\ Len(dstFile'.data) >= Len(dstFile.data)
          ]_vars

\* a worker is about to open the destination while the other worker has
\* already written into it
C16_Witness ==
    /\ mode = "file"
    /\ ThreadCount = 2
    /\ Len(srcData) = 5
    /\ Len(dstFile.data) = 5
    /\ threads[0].pc = "open"
    /\ threads[1].pc = "emit"
    /\ dstFile.data[3] = srcData[3]

\* C17: in a run without I/O error, under fair scheduling of the workers, the
\* slots and the status timer, a launched operation (file or folder mode) leads
\* to a state where every progress event has been applied, total_bytes_copied
\* equals total_file_size and the completion signal has been raised.
C17_Liveness ==
    [](~faulted /\ ~aborted) =>
        ((mode # "none") ~>
            (completions = 1 /\ total_bytes_copied = total_file_size /\ events = <<>>))

\* an operation of two folder workers on two files has run to completion
C17_Witness ==
    /\ NoIOError
    /\ mode = "folder"
    /\ ThreadCount = 2
    /\ Len(tree) = 2 /\ tree[1].size = 3 /\ tree[2].size = 2
    /\ completions = 1
    /\ total_bytes_copied = total_file_size
    /\ events = <<>>

\* C18: the emptiness check and the pop are one critical section: a worker
\* between the two holds the lock, is the only one there and finds the queue as
\* it checked it, non-empty, so no pop ever raises on an empty queue; the tasks
\* pulled so far, by all workers in pull order, followed by the tasks still
\* queued, are the scanned tasks in scan order: the k-th pull returned task k.
C18_QueueDiscipline ==
    mode = "folder" =>
        /\ \A w \in DOMAIN threads :
              /\ threads[w].pc # "index_error"
              /\ threads[w].pc = "pop" => (queue_lock = w /\ files_queue # <<>>)
              /\ queue_lock = w => threads[w].pc = "pop"
        /\ \A k \in 1 .. Len(pulls) : pulls[k] = k
        /\ Len(pulls) + Len(files_queue) = Len(tree)
        /\ \A j \in 1 .. Len(files_queue) :
              /\ files_queue[j].id = Len(pulls) + j
              /\ files_queue[j].dir = tree[Len(pulls) + j].dir

\* two workers have pulled one after the other: the first pull gave task 1 to
\* worker 1, the second gave task 2 to worker 0
C18_Witness ==
    /\ mode = "folder"
    /\ ThreadCount = 2
    /\ pulls = <<1, 2>>
    /\ threads[1].task.id = 1
    /\ threads[0].task.id = 2
    /\ files_queue = <<>>

\* C19: file mode on an empty source file: every range is [0, 0), no worker ever
\* holds a block or emits a progress event, total_bytes_copied stays 0, a worker
\* that is Done has emitted its finished signal once, the first status tick
\* raises the completion (0 >= 0) and stops the poller so that it is raised once;
\* and under fair scheduling every worker does reach Done and the completion is
\* raised.
C19_EmptyFile ==
    /\ [](mode = "file" /\ Len(srcData) = 0 =>
            /\ \A w \in DOMAIN threads :
                  /\ threads[w].start_pos = 0 /\ threads[w].end_pos = 0
                  /\ threads[w].total_bytes = 0
                  /\ threads[w].pc \in {"open", "read", "finish", "done"}
                  /\ threads[w].data = <<>>
                  /\ threads[w].pc = "done" => finished_emitted[w] = 1
                  /\ threads[w].pc # "done" => finished_emitted[w] = 0
            /\ events = <<>>
            /\ total_bytes_copied = 0
            /\ total_file_size = 0
            /\ completions <= 1)
    /\ [][ (mode = "file" /\ Len(srcData) = 0 /\ update_status) =>
              (completions = 0 /\ completions' = 1 /\ ~timerActive')
          ]_vars
    /\ (mode = "file" /\ Len(srcData) = 0) ~>
          (AllDone /\ completions = 1 /\ \A w \in DOMAIN threads : finished_emitted[w] = 1)

\* two workers on an empty file are Done and the completion has been raised
C19_Witness ==
    /\ mode = "file"
    /\ Len(srcData) = 0
    /\ ThreadCount = 2
    /\ AllDone
    /\ \A w \in DOMAIN threads : finished_emitted[w] = 1
    /\ completions = 1
    /\ total_bytes_copied = 0

\* C20: whenever the completion signal has been raised (and the start control is
\* enabled again after a launch), every worker of the operation is Done - it has
\* left its loop, closed its files and emitted its finished signal - and in
\* folder mode the task queue is empty.
C20_WorkersDoneAtCompletion ==
    (mode # "none" /\ (completions >= 1 \/ start_enabled)) =>
        /\ \A w \in DOMAIN threads :
              threads[w].pc = "done" /\ finished_emitted[w] = 1
        /\ files_queue = <<>>
====
